---- MODULE Spec2Model ----
(***************************************************************************)
(* Model of src/main.rs: a window, a wgpu device bound to its surface, one *)
(* render pipeline, and the winit event loop closure that resizes the swap *)
(* chain, tracks the cursor in the clear color and renders one triangle    *)
(* per redraw.                                                             *)
(*                                                                         *)
(* f64 values are modelled as reduced fractions <<n, d>> with d >= 0:      *)
(* <<n, d>> with d > 0 is the quotient n/d, <<1, 0>> is +inf, <<-1, 0>> is *)
(* -inf and <<0, 0>> is NaN, which is what IEEE division of two finite     *)
(* values yields for x/0 and 0/0.                                          *)
(***************************************************************************)
EXTENDS Integers, Sequences, FiniteSets, TLC

\* Largest window width / height, in pixels, that the environment produces.
MaxDim == 1
\* Largest cursor coordinate the environment reports.
MaxPos == 1

Dims == 0..MaxDim
Sizes == [width : Dims, height : Dims]
Positions == 0..MaxPos
\* Option<VirtualKeyCode>: no key code, Escape, or some other key.
KeyCodes == {"None", "Escape", "A"}

VARIABLES
    pc,               \* position of the main thread
    state,            \* the State aggregate (locals of State::new while it is built)
    inner_size,       \* window.inner_size(), owned by the windowing system
    control_flow,     \* *control_flow of the event loop closure
    redraw_requested, \* set by window.request_redraw()
    phase,            \* position inside one iteration of the event loop
    failed,           \* the fallible operation whose unwrap() panicked, or "none"
    last_event,       \* the event the closure handled last (tick flips per event)
    calls,            \* graphics calls issued by the handler of last_event
    cursor_hist,      \* input of the most recent CursorMoved event
    resized_hist,     \* payload of the most recent Resized event, else the initial size
    init_done         \* the initialization steps completed so far, in order

vars == <<pc, state, inner_size, control_flow, redraw_requested, phase, failed,
          last_event, calls, cursor_hist, resized_hist, init_done>>

----------------------------------------------------------------------------
\* f64 arithmetic

RECURSIVE GCD(_, _)
GCD(a, b) == IF b = 0 THEN a ELSE GCD(b, a % b)

Abs(x) == IF x < 0 THEN -x ELSE x

\* x / (w as f64)
FDiv(x, w) ==
    LET g == GCD(Abs(x), w)
    IN  IF g = 0 THEN <<0, 0>> ELSE <<x \div g, w \div g>>

F64One == <<1, 1>>
F64Zero == <<0, 1>>

\* wgpu::Color::default()
DefaultColor == [r |-> F64Zero, g |-> F64Zero, b |-> F64Zero, a |-> F64Zero]

----------------------------------------------------------------------------
\* Values of the aggregate

NoSize == [width |-> 0, height |-> 0]
NoDesc == [usage |-> "none", format |-> "none", width |-> 0, height |-> 0,
           present_mode |-> "none"]
NoSwapChain == [surface |-> "none", desc |-> NoDesc]
NoPipeline == [format |-> "none", topology |-> "none", vertex_buffers |-> 0,
               vertex_stage |-> "none", fragment_stage |-> "none"]

NoState == [surface |-> "none", device |-> "none", queue |-> "none",
            swap_chain |-> NoSwapChain, swap_chain_desc |-> NoDesc,
            size |-> NoSize, clear_color |-> DefaultColor,
            render_pipeline |-> NoPipeline]

\* device.create_swap_chain(&surface, &desc)
create_swap_chain(surface, desc) == [surface |-> surface, desc |-> desc]

NoEvent == [type |-> "none", key |-> "None", tick |-> 0]
Event(type, key) == [type |-> type, key |-> key, tick |-> 1 - last_event.tick]

NoCursor == [moved |-> FALSE, x |-> 0, y |-> 0, width |-> 0, height |-> 0]

----------------------------------------------------------------------------
Init ==
    /\ pc = "main"
    /\ state = NoState
    /\ inner_size = NoSize
    /\ control_flow = "Poll"
    /\ redraw_requested = FALSE
    /\ phase = "events"
    /\ failed = "none"
    /\ last_event = NoEvent
    /\ calls = <<>>
    /\ cursor_hist = NoCursor
    /\ resized_hist = NoSize
    /\ init_done = <<>>

\* unwrap() on a failed operation: the main thread panics.
Panic(what) ==
    /\ pc' = "aborted"
    /\ failed' = what

----------------------------------------------------------------------------
\* main, before the loop, and State::new

CreateWindow(ok, s) ==
    /\ pc = "main"
    /\ init_done' = IF ok THEN Append(init_done, "window") ELSE init_done
    /\ IF ok
       THEN /\ pc' = "new"
            /\ inner_size' = s
            /\ UNCHANGED failed
       ELSE /\ Panic("window")
            /\ UNCHANGED inner_size
    /\ UNCHANGED <<state, control_flow, redraw_requested, phase, last_event,
                   calls, cursor_hist, resized_hist>>

CreateSurface ==
    /\ pc = "new"
    /\ init_done' = Append(init_done, "surface")
    /\ state' = [state EXCEPT !.size = inner_size, !.surface = "surface"]
    /\ resized_hist' = inner_size
    /\ pc' = "request_adapter"
    /\ UNCHANGED <<inner_size, control_flow, redraw_requested, phase, failed,
                   last_event, calls, cursor_hist>>

RequestAdapter_IgnoresFailure(ok) ==
    /\ pc = "request_adapter"
    /\ init_done' = IF ok THEN Append(init_done, "adapter") ELSE init_done
    /\ pc' = "request_device"
    /\ failed' = IF ok THEN failed ELSE "adapter"
    /\ UNCHANGED <<state, inner_size, control_flow, redraw_requested, phase,
                   last_event, calls, cursor_hist, resized_hist>>

RequestAdapter(ok) ==
    /\ pc = "request_adapter"
    /\ init_done' = IF ok THEN Append(init_done, "adapter") ELSE init_done
    /\ IF ok
       THEN pc' = "request_device" /\ UNCHANGED failed
       ELSE Panic("adapter")
    /\ UNCHANGED <<state, inner_size, control_flow, redraw_requested, phase,
                   last_event, calls, cursor_hist, resized_hist>>

RequestDevice(ok) ==
    /\ pc = "request_device"
    /\ init_done' = IF ok THEN Append(init_done, "device") ELSE init_done
    /\ IF ok
       THEN /\ pc' = "create_swap_chain"
            /\ state' = [state EXCEPT !.device = "device", !.queue = "queue"]
            /\ UNCHANGED failed
       ELSE /\ Panic("device")
            /\ UNCHANGED state
    /\ UNCHANGED <<inner_size, control_flow, redraw_requested, phase,
                   last_event, calls, cursor_hist, resized_hist>>

NewSwapChainDesc(size) ==
    [usage |-> "OUTPUT_ATTACHMENT", format |-> "Bgra8UnormSrgb",
     width |-> size.width, height |-> size.height, present_mode |-> "Fifo"]

CreateSwapChain ==
    /\ pc = "create_swap_chain"
    /\ init_done' = Append(init_done, "swap_chain")
    /\ LET desc == NewSwapChainDesc(state.size)
       IN  state' = [state EXCEPT !.swap_chain_desc = desc,
                                  !.swap_chain = create_swap_chain(state.surface, desc)]
    /\ pc' = "new_compiler"
    /\ UNCHANGED <<inner_size, control_flow, redraw_requested, phase, failed,
                   last_event, calls, cursor_hist, resized_hist>>

NewCompiler(ok) ==
    /\ pc = "new_compiler"
    /\ init_done' = IF ok THEN Append(init_done, "compiler") ELSE init_done
    /\ IF ok
       THEN pc' = "compile_vertex" /\ UNCHANGED failed
       ELSE Panic("compiler")
    /\ UNCHANGED <<state, inner_size, control_flow, redraw_requested, phase,
                   last_event, calls, cursor_hist, resized_hist>>

CompileVertex(ok) ==
    /\ pc = "compile_vertex"
    /\ init_done' = IF ok THEN Append(init_done, "vertex_shader") ELSE init_done
    /\ IF ok
       THEN pc' = "compile_fragment" /\ UNCHANGED failed
       ELSE Panic("vertex_shader")
    /\ UNCHANGED <<state, inner_size, control_flow, redraw_requested, phase,
                   last_event, calls, cursor_hist, resized_hist>>

CompileFragment(ok) ==
    /\ pc = "compile_fragment"
    /\ init_done' = IF ok THEN Append(init_done, "fragment_shader") ELSE init_done
    /\ IF ok
       THEN pc' = "create_pipeline" /\ UNCHANGED failed
       ELSE Panic("fragment_shader")
    /\ UNCHANGED <<state, inner_size, control_flow, redraw_requested, phase,
                   last_event, calls, cursor_hist, resized_hist>>

NewRenderPipeline(desc) ==
    [format |-> desc.format, topology |-> "TriangleList", vertex_buffers |-> 0,
     vertex_stage |-> "shader.vert", fragment_stage |-> "shader.frag"]

\* create the shader modules, the layout and the pipeline, and return Self
CreatePipeline ==
    /\ pc = "create_pipeline"
    /\ init_done' = Append(init_done, "pipeline")
    /\ state' = [state EXCEPT
                    !.render_pipeline = NewRenderPipeline(state.swap_chain_desc),
                    !.clear_color = DefaultColor]
    /\ pc' = "loop"
    /\ UNCHANGED <<inner_size, control_flow, redraw_requested, phase, failed,
                   last_event, calls, cursor_hist, resized_hist>>

----------------------------------------------------------------------------
\* State::resize and State::render

resize_KeepsWidth(self, new_size) ==
    LET desc == [self.swap_chain_desc EXCEPT !.height = new_size.height]
    IN  [self EXCEPT !.size = new_size,
                     !.swap_chain_desc = desc,
                     !.swap_chain = create_swap_chain(self.surface, desc)]

resize_ResetsFormat(self, new_size) ==
    LET desc == [self.swap_chain_desc EXCEPT !.height = new_size.height,
                                             !.width = new_size.width,
                                             !.format = "Bgra8Unorm"]
    IN  [self EXCEPT !.size = new_size,
                     !.swap_chain_desc = desc,
                     !.swap_chain = create_swap_chain(self.surface, desc)]

resize(self, new_size) ==
    LET desc == [self.swap_chain_desc EXCEPT !.height = new_size.height,
                                             !.width = new_size.width]
    IN  [self EXCEPT !.size = new_size,
                     !.swap_chain_desc = desc,
                     !.swap_chain = create_swap_chain(self.surface, desc)]

\* The graphics calls of one successful render, in program order.
RenderCalls(self) ==
    << [op |-> "get_current_frame", target |-> self.swap_chain],
       [op |-> "create_command_encoder"],
       [op |-> "begin_render_pass", attachment |-> self.swap_chain,
        clear |-> self.clear_color],
       [op |-> "set_pipeline", pipeline |-> self.render_pipeline],
       [op |-> "draw", first_vertex |-> 0, vertices |-> 3,
        first_instance |-> 0, instances |-> 1],
       [op |-> "end_render_pass"],
       [op |-> "finish"],
       [op |-> "submit", buffers |-> 1] >>

FrameError == << [op |-> "get_current_frame_failed"] >>

render_StoresColor(self, frame_ok) ==
    IF frame_ok
    THEN [self |-> [self EXCEPT !.clear_color = DefaultColor],
          calls |-> RenderCalls(self), panicked |-> FALSE]
    ELSE [self |-> self, calls |-> FrameError, panicked |-> TRUE]

render_SkipsFailedFrame(self, frame_ok) ==
    IF frame_ok
    THEN [self |-> self, calls |-> RenderCalls(self), panicked |-> FALSE]
    ELSE [self |-> self, calls |-> FrameError, panicked |-> FALSE]

render_DrawsTwice(self, frame_ok) ==
    IF frame_ok
    THEN [self |-> self,
          calls |-> SubSeq(RenderCalls(self), 1, 5) \o SubSeq(RenderCalls(self), 5, 8),
          panicked |-> FALSE]
    ELSE [self |-> self, calls |-> FrameError, panicked |-> TRUE]

\* Returns the aggregate after the call, the graphics calls it issued and
\* whether get_current_frame().unwrap() panicked.
render(self, frame_ok) ==
    IF frame_ok
    THEN [self |-> self, calls |-> RenderCalls(self), panicked |-> FALSE]
    ELSE [self |-> self, calls |-> FrameError, panicked |-> TRUE]

----------------------------------------------------------------------------
\* The event loop closure

cursor_color_WidthForBlue(x, y, inner) ==
    [r |-> FDiv(x, inner.width), g |-> FDiv(y, inner.height),
     b |-> FDiv(x, inner.width), a |-> F64One]

\* The four channel assignments of the CursorMoved arm.
cursor_color(x, y, inner) ==
    [r |-> FDiv(x, inner.width), g |-> FDiv(y, inner.height),
     b |-> FDiv(x, inner.height), a |-> F64One]

CloseRequested_KeepsRunning ==
    /\ pc = "loop" /\ phase = "events"
    /\ UNCHANGED init_done
    /\ last_event' = Event("CloseRequested", "None")
    /\ calls' = <<>>
    /\ UNCHANGED <<pc, state, inner_size, control_flow, redraw_requested, phase,
                   failed, cursor_hist, resized_hist>>

CloseRequested ==
    /\ pc = "loop" /\ phase = "events"
    /\ UNCHANGED init_done
    /\ last_event' = Event("CloseRequested", "None")
    /\ control_flow' = "Exit"
    /\ calls' = <<>>
    /\ UNCHANGED <<pc, state, inner_size, redraw_requested, phase, failed,
                   cursor_hist, resized_hist>>

KeyboardInput(key) ==
    /\ pc = "loop" /\ phase = "events"
    /\ UNCHANGED init_done
    /\ last_event' = Event("KeyboardInput", key)
    /\ calls' = <<>>
    /\ IF key = "None"
       THEN /\ Panic("keycode")
            /\ UNCHANGED control_flow
       ELSE /\ control_flow' = IF key = "Escape" THEN "Exit" ELSE control_flow
            /\ UNCHANGED <<pc, failed>>
    /\ UNCHANGED <<state, inner_size, redraw_requested, phase, cursor_hist,
                   resized_hist>>

CursorMoved(x, y) ==
    /\ pc = "loop" /\ phase = "events"
    /\ UNCHANGED init_done
    /\ last_event' = Event("CursorMoved", "None")
    /\ state' = [state EXCEPT !.clear_color = cursor_color(x, y, inner_size)]
    /\ cursor_hist' = [moved |-> TRUE, x |-> x, y |-> y,
                       width |-> inner_size.width, height |-> inner_size.height]
    /\ calls' = <<>>
    /\ UNCHANGED <<pc, inner_size, control_flow, redraw_requested, phase,
                   failed, resized_hist>>

Resized(physical_size) ==
    /\ pc = "loop" /\ phase = "events"
    /\ UNCHANGED init_done
    /\ last_event' = Event("Resized", "None")
    /\ state' = resize(state, physical_size)
    /\ resized_hist' = physical_size
    /\ calls' = << [op |-> "create_swap_chain", target |-> state'.swap_chain] >>
    /\ UNCHANGED <<pc, inner_size, control_flow, redraw_requested, phase,
                   failed, cursor_hist>>

\* any other WindowEvent: the inner `_ => {}` arm
OtherWindowEvent ==
    /\ pc = "loop" /\ phase = "events"
    /\ UNCHANGED init_done
    /\ last_event' = Event("OtherWindowEvent", "None")
    /\ calls' = <<>>
    /\ UNCHANGED <<pc, state, inner_size, control_flow, redraw_requested, phase,
                   failed, cursor_hist, resized_hist>>

RedrawRequested(frame_ok) ==
    /\ pc = "loop" /\ phase = "redraw" /\ redraw_requested
    /\ UNCHANGED init_done
    /\ last_event' = Event("RedrawRequested", "None")
    /\ LET res == render(state, frame_ok)
       IN  /\ state' = res.self
           /\ calls' = res.calls
           /\ IF res.panicked
              THEN Panic("frame")
              ELSE UNCHANGED <<pc, failed>>
    /\ redraw_requested' = FALSE
    /\ UNCHANGED <<inner_size, control_flow, phase, cursor_hist, resized_hist>>

MainEventsCleared_NoRequest ==
    /\ pc = "loop" /\ phase = "events"
    /\ UNCHANGED init_done
    /\ last_event' = Event("MainEventsCleared", "None")
    /\ phase' = "redraw"
    /\ calls' = <<>>
    /\ UNCHANGED <<pc, state, inner_size, control_flow, redraw_requested, failed,
                   cursor_hist, resized_hist>>

MainEventsCleared ==
    /\ pc = "loop" /\ phase = "events"
    /\ UNCHANGED init_done
    /\ last_event' = Event("MainEventsCleared", "None")
    /\ redraw_requested' = TRUE
    /\ phase' = "redraw"
    /\ calls' = <<>>
    /\ UNCHANGED <<pc, state, inner_size, control_flow, failed, cursor_hist,
                   resized_hist>>

\* RedrawEventsCleared closes the iteration through the outer `_ => {}` arm;
\* run() then either starts the next iteration or, on ControlFlow::Exit,
\* delivers LoopDestroyed and ends the process.
RedrawEventsCleared ==
    /\ pc = "loop" /\ phase = "redraw" /\ ~redraw_requested
    /\ UNCHANGED init_done
    /\ last_event' = Event("Other", "None")
    /\ calls' = <<>>
    /\ IF control_flow = "Exit"
       THEN pc' = "exited" /\ UNCHANGED phase
       ELSE phase' = "events" /\ UNCHANGED pc
    /\ UNCHANGED <<state, inner_size, control_flow, redraw_requested, failed,
                   cursor_hist, resized_hist>>

\* The windowing system changes the window's inner size; the Resized event
\* that reports it is delivered later.
WindowInnerSizeChanged(s) ==
    /\ pc \notin {"main", "aborted", "exited"}
    /\ UNCHANGED init_done
    /\ s # inner_size
    /\ inner_size' = s
    /\ UNCHANGED <<pc, state, control_flow, redraw_requested, phase, failed,
                   last_event, calls, cursor_hist, resized_hist>>

----------------------------------------------------------------------------
Next ==
    \/ \E ok \in BOOLEAN, s \in Sizes : CreateWindow(ok, s)
    \/ CreateSurface
    \/ \E ok \in BOOLEAN : RequestAdapter(ok)
    \/ \E ok \in BOOLEAN : RequestDevice(ok)
    \/ CreateSwapChain
    \/ \E ok \in BOOLEAN : NewCompiler(ok)
    \/ \E ok \in BOOLEAN : CompileVertex(ok)
    \/ \E ok \in BOOLEAN : CompileFragment(ok)
    \/ CreatePipeline
    \/ CloseRequested
    \/ \E key \in KeyCodes : KeyboardInput(key)
    \/ \E x \in Positions, y \in Positions : CursorMoved(x, y)
    \/ \E s \in Sizes : Resized(s)
    \/ OtherWindowEvent
    \/ \E ok \in BOOLEAN : RedrawRequested(ok)
    \/ MainEventsCleared
    \/ RedrawEventsCleared
    \/ \E s \in Sizes : WindowInnerSizeChanged(s)

Spec == Init /\ [][Next]_vars

\* The event loop delivers a requested redraw before it closes the iteration.
LiveSpec == Spec /\ WF_vars(\E ok \in BOOLEAN : RedrawRequested(ok))

----------------------------------------------------------------------------
\* Vocabulary of the properties

\* State::new has returned: the loop runs, has exited, or panicked in a handler.
Constructed ==
    \/ pc \in {"loop", "exited"}
    \/ pc = "aborted" /\ failed \in {"keycode", "frame"}

\* The step handled an event.
Handled == last_event' # last_event

FrameFailed == calls # <<>> /\ calls[1].op = "get_current_frame_failed"

Rendered == last_event.type = "RedrawRequested" /\ ~FrameFailed

CallOps == [i \in 1..Len(calls) |-> calls[i].op]

CountOp(op) == Cardinality({i \in 1..Len(calls) : calls[i].op = op})

\* q is the f64 quotient n / d of a cursor coordinate and a window dimension.
IsQuotient(q, n, d) ==
    IF d = 0
    THEN q = IF n > 0 THEN <<1, 0>> ELSE IF n < 0 THEN <<-1, 0>> ELSE <<0, 0>>
    ELSE /\ q[2] > 0
         /\ q[1] * d = n * q[2]
         /\ \A k \in 2..q[2] : ~(q[1] % k = 0 /\ q[2] % k = 0)

\* c is the color the most recent CursorMoved event determines.
TracksCursor(c) ==
    IF cursor_hist.moved
    THEN /\ IsQuotient(c.r, cursor_hist.x, cursor_hist.width)
         /\ IsQuotient(c.g, cursor_hist.y, cursor_hist.height)
         /\ IsQuotient(c.b, cursor_hist.x, cursor_hist.height)
         /\ c.a = <<1, 1>>
    ELSE c = [r |-> <<0, 1>>, g |-> <<0, 1>>, b |-> <<0, 1>>, a |-> <<0, 1>>]

----------------------------------------------------------------------------
\* C1: once State::new has returned, and after any handled events, the swap
\* configuration's width and height equal the stored size, and the live
\* swap chain is the one created from that configuration, whose dimensions
\* are those of the most recent Resized event (the initial window size if
\* there was none).
C1_SwapMatchesSize ==
    Constructed =>
        /\ state.swap_chain_desc.width = state.size.width
        /\ state.swap_chain_desc.height = state.size.height
        /\ state.swap_chain.desc = state.swap_chain_desc
        /\ state.swap_chain.surface = state.surface
        /\ state.swap_chain.desc.width = resized_hist.width
        /\ state.swap_chain.desc.height = resized_hist.height

C1_Witness ==
    /\ pc = "loop"
    /\ last_event.type = "Resized"
    /\ state.size = [width |-> 1, height |-> 0]
    /\ inner_size = [width |-> 0, height |-> 1]

\* C2: handling CloseRequested, or a KeyboardInput whose key is Escape, sets
\* the control flow to Exit, does not abort the process and leaves the
\* aggregate unchanged.
C2_ExitOnCloseOrEscape ==
    [][ ( /\ pc = "loop"
          /\ Handled
          /\ \/ last_event'.type = "CloseRequested"
             \/ last_event'.type = "KeyboardInput" /\ last_event'.key = "Escape" )
        => /\ control_flow' = "Exit"
           /\ pc' = "loop"
           /\ failed' = "none"
           /\ state' = state ]_vars

C2_Witness ==
    /\ pc = "loop"
    /\ last_event.type = "CloseRequested"
    /\ control_flow = "Exit"
    /\ state.clear_color.a = <<1, 1>>

\* C3: while the loop runs, size, swap configuration and swap chain change
\* only in the handler of Resized, the clear color only in the handler of
\* CursorMoved, surface, device, queue and pipeline never; RedrawRequested,
\* MainEventsCleared, CloseRequested and KeyboardInput leave the aggregate
\* unchanged.
C3_MutationPaths ==
    [][ pc = "loop" =>
        /\ ( \/ state'.size # state.size
             \/ state'.swap_chain_desc # state.swap_chain_desc
             \/ state'.swap_chain # state.swap_chain )
           => (Handled /\ last_event'.type = "Resized")
        /\ state'.clear_color # state.clear_color
           => (Handled /\ last_event'.type = "CursorMoved")
        /\ state'.surface = state.surface
        /\ state'.device = state.device
        /\ state'.queue = state.queue
        /\ state'.render_pipeline = state.render_pipeline
        /\ ( Handled /\ last_event'.type \in
               {"RedrawRequested", "MainEventsCleared", "CloseRequested",
                "KeyboardInput"} )
           => state' = state ]_vars

C3_Witness ==
    /\ Rendered
    /\ pc = "loop"
    /\ state.clear_color # DefaultColor
    /\ state.size # inner_size

\* C4: no event is handled and no frame rendered before adapter, device,
\* swap chain, vertex shader, fragment shader and pipeline have succeeded
\* in that order; a failure of adapter, device or either shader compilation
\* ends the process at once: the step is not retried, nothing after it runs
\* and the loop is never entered.
ClaimedInitSteps ==
    {"adapter", "device", "swap_chain", "vertex_shader", "fragment_shader",
     "pipeline"}

ClaimedInitOrder ==
    <<"adapter", "device", "swap_chain", "vertex_shader", "fragment_shader",
      "pipeline">>

InClaimedInitSteps(step) == step \in ClaimedInitSteps

C4_InitBeforeLoop ==
    LET done == SelectSeq(init_done, InClaimedInitSteps)
    IN  /\ done = SubSeq(ClaimedInitOrder, 1, Len(done))
        /\ (last_event # NoEvent \/ calls # <<>> \/ pc \in {"loop", "exited"})
           => done = ClaimedInitOrder
        /\ failed \in {"adapter", "device", "vertex_shader", "fragment_shader"}
           => /\ pc = "aborted"
              /\ last_event = NoEvent
              /\ calls = <<>>
              /\ \A i \in 1..Len(init_done) : init_done[i] # failed
              /\ CASE failed = "adapter" -> done = <<>>
                   [] failed = "device" -> done = <<"adapter">>
                   [] failed = "vertex_shader" -> done = SubSeq(ClaimedInitOrder, 1, 3)
                   [] failed = "fragment_shader" -> done = SubSeq(ClaimedInitOrder, 1, 4)

C4_Witness ==
    /\ pc = "aborted"
    /\ failed = "fragment_shader"
    /\ last_event = NoEvent

\* C5: when frame acquisition fails in the handler of RedrawRequested the
\* process terminates: nothing is recorded or submitted for that redraw and
\* no step follows the failure.
C5_FrameFailureTerminates ==
    /\ [](FrameFailed =>
            /\ pc = "aborted"
            /\ failed = "frame"
            /\ last_event.type = "RedrawRequested"
            /\ Len(calls) = 1)
    /\ [][~FrameFailed]_vars

C5_Witness ==
    /\ FrameFailed
    /\ pc = "aborted"
    /\ last_event.type = "RedrawRequested"

\* C6: a handled RedrawRequested whose frame acquisition succeeds renders
\* once, in the order acquire frame, begin pass clearing to the current
\* clear color, bind the pipeline, draw 3 vertices / 1 instance, end pass,
\* submit; one command buffer with one draw call is submitted, after the
\* pass has ended.
C6_OneRenderPerRedraw ==
    Rendered =>
        /\ CallOps = <<"get_current_frame", "create_command_encoder",
                       "begin_render_pass", "set_pipeline", "draw",
                       "end_render_pass", "finish", "submit">>
        /\ calls[1].target = state.swap_chain
        /\ calls[3].attachment = state.swap_chain
        /\ calls[3].clear = state.clear_color
        /\ calls[4].pipeline = state.render_pipeline
        /\ calls[5].vertices = 3 /\ calls[5].first_vertex = 0
        /\ calls[5].instances = 1 /\ calls[5].first_instance = 0
        /\ calls[8].buffers = 1
        /\ CountOp("draw") = 1
        /\ CountOp("submit") = 1

C6_Witness ==
    /\ Rendered
    /\ Len(calls) = 8
    /\ calls[3].clear.r = <<1, 1>>
    /\ pc = "loop"

\* C7: the clear color, and the color a render clears with, is the one the
\* most recent CursorMoved event set (the default color if there was none):
\* r = x/width, g = y/height, b = x/height, a = 1 for the cursor position
\* (x, y) and the window's inner size at that event.
C7_ColorTracksCursor ==
    Constructed =>
        /\ TracksCursor(state.clear_color)
        /\ (Rendered => TracksCursor(calls[3].clear))

C7_Witness ==
    /\ Rendered
    /\ cursor_hist.moved
    /\ cursor_hist.x = 1 /\ cursor_hist.y = 1
    /\ cursor_hist.width = 1 /\ cursor_hist.height = 0
    /\ state.size = [width |-> 0, height |-> 1]
    /\ calls[3].clear = [r |-> <<1, 1>>, g |-> <<1, 0>>, b |-> <<1, 0>>, a |-> <<1, 1>>]

\* C8: a KeyboardInput whose key is not Escape, a missing key code included,
\* is ignored: the process keeps running, the control flow is not set to
\* Exit by it and the aggregate is unchanged.
C8_OtherKeysIgnored ==
    [][ ( /\ pc = "loop"
          /\ Handled
          /\ last_event'.type = "KeyboardInput"
          /\ last_event'.key # "Escape" )
        => /\ pc' = "loop"
           /\ failed' = "none"
           /\ control_flow' = control_flow
           /\ state' = state ]_vars

\* C9: every MainEventsCleared requests a redraw, and while the loop has
\* not been told to exit a handled MainEventsCleared is eventually followed
\* by a handled RedrawRequested, which renders unless its frame acquisition
\* fails.
C9_RedrawFollows ==
    /\ [][ (pc = "loop" /\ Handled /\ last_event'.type = "MainEventsCleared")
           => redraw_requested' ]_vars
    /\ ( (pc = "loop" /\ last_event.type = "MainEventsCleared"
            /\ control_flow # "Exit")
         ~> (last_event.type = "RedrawRequested"
               /\ (FrameFailed \/ CountOp("submit") = 1)) )

C9_Witness ==
    /\ Rendered
    /\ control_flow = "Poll"
    /\ CountOp("submit") = 1
    /\ ~redraw_requested

\* C10: after any Resized events the swap configuration's format, usage and
\* present mode are those chosen at initialization, and the color target
\* format of the pipeline equals the format of the swap chain a render
\* draws into.
C10_FormatFixed ==
    Constructed =>
        /\ state.swap_chain_desc.format = "Bgra8UnormSrgb"
        /\ state.swap_chain_desc.usage = "OUTPUT_ATTACHMENT"
        /\ state.swap_chain_desc.present_mode = "Fifo"
        /\ state.render_pipeline.format = state.swap_chain.desc.format
        /\ Rendered => calls[4].pipeline.format = calls[3].attachment.desc.format

C10_Witness ==
    /\ Rendered
    /\ state.size = [width |-> 1, height |-> 1]
    /\ state.size # inner_size
    /\ calls[3].attachment.desc.width = 1
    /\ calls[4].pipeline.format = "Bgra8UnormSrgb"

====
